---- MODULE Spec2Model ----
(***************************************************************************)
(* Model of plato-hook-helper (src/src/lib.rs): PlatoHelper<W, R>, a       *)
(* duplex JSON adapter with two write operations (display_notification,    *)
(* set_wifi) and one blocking read operation (wait_for_network_blocking).  *)
(*                                                                         *)
(* A byte stream is a sequence of chunks.  A chunk is either one special   *)
(* character (quote, backslash, newline, a JSON punctuation character, a   *)
(* blank) or a run of plain characters ("network", "Hello, World!").       *)
(* Two markers occur in input streams only: BADUTF8 stands for a byte that *)
(* is not valid UTF-8 and IOERR for the point where the underlying         *)
(* Read::read returns an error.                                            *)
(***************************************************************************)
EXTENDS Integers, Sequences, FiniteSets, TLC

(* ---------------------------------------------------------------- bounds *)
MaxLines == 3
MaxCalls == 2
BufCap == 8
MaxReads == MaxLines + 3

(* ------------------------------------------------------------ characters *)
QUOTE == "\""
BSL == "\\"
NL == "\n"
BLANK == " "
BADUTF8 == "<FF>"
IOERR == "<EIO>"

Punct == {"{", "}", "[", "]", ":", ","}
Whitespace == {BLANK, NL, "\t", "\r"}

Min(a, b) == IF a < b THEN a ELSE b

(* ----------------------------------------------------- serde_json output *)
\* serde_json's string escaping, one character at a time.
EscapeChar(c) ==
  IF c = QUOTE THEN <<BSL, QUOTE>>
  ELSE IF c = BSL THEN <<BSL, BSL>>
  ELSE IF c = NL THEN <<BSL, "n">>
  ELSE <<c>>

RECURSIVE Escape(_)
Escape(s) == IF s = <<>> THEN <<>> ELSE EscapeChar(Head(s)) \o Escape(Tail(s))

JsonString(s) == <<QUOTE>> \o Escape(s) \o <<QUOTE>>

JsonBool(b) == IF b THEN <<"true">> ELSE <<"false">>

\* #[derive(Serialize)] struct NotificationEvent { type, message }
SerNotificationEvent(e) ==
  <<"{">> \o JsonString(<<"type">>) \o <<":">> \o JsonString(e.type)
    \o <<",">> \o JsonString(<<"message">>) \o <<":">> \o JsonString(e.message)
    \o <<"}">>

\* #[derive(Serialize)] struct WifiEvent { type, enable }
SerWifiEvent(e) ==
  <<"{">> \o JsonString(<<"type">>) \o <<":">> \o JsonString(e.type)
    \o <<",">> \o JsonString(<<"enable">>) \o <<":">> \o JsonBool(e.enable)
    \o <<"}">>

\* serde_json::to_string(value) as write_json calls it
to_string(value) ==
  IF value.struct = "NotificationEvent" THEN SerNotificationEvent(value)
  ELSE SerWifiEvent(value)

\* Mutant of WifiStatusToBool: the two arms of the match exchanged.
WifiStatusToBool_Inverted(f) == IF f = "Enabled" THEN FALSE ELSE TRUE

\* impl From<WifiStatus> for bool
WifiStatus == {"Enabled", "Disabled"}
WifiStatusToBool(f) == IF f = "Enabled" THEN TRUE ELSE FALSE

(* ------------------------------------------------------ serde_json input *)
LexFail == [ok |-> FALSE, toks |-> <<>>]

\* Index of the quote that closes a string whose content starts at i, 0 if none.
RECURSIVE StrEnd(_, _)
StrEnd(s, i) ==
  IF i > Len(s) THEN 0
  ELSE IF s[i] = QUOTE THEN i
  ELSE IF s[i] = BSL THEN StrEnd(s, i + 2)
  ELSE StrEnd(s, i + 1)

\* Content of s[i..j] with escapes resolved; ok is FALSE on an invalid escape.
RECURSIVE Unescape(_, _, _)
Unescape(s, i, j) ==
  IF i > j THEN [ok |-> TRUE, v |-> <<>>]
  ELSE IF s[i] = BSL
    THEN IF i + 1 > j THEN [ok |-> FALSE, v |-> <<>>]
         ELSE LET c == s[i + 1]
                  d == IF c = "n" THEN NL ELSE c
                  r == Unescape(s, i + 2, j)
              IN IF c \in {QUOTE, BSL, "n"} /\ r.ok
                   THEN [ok |-> TRUE, v |-> <<d>> \o r.v]
                   ELSE [ok |-> FALSE, v |-> <<>>]
    ELSE LET r == Unescape(s, i + 1, j)
         IN IF r.ok THEN [ok |-> TRUE, v |-> <<s[i]>> \o r.v]
            ELSE [ok |-> FALSE, v |-> <<>>]

\* The lexemes of s from position i on: punctuation "p", strings "str",
\* other scalars "lit".  Whitespace between lexemes is skipped.
RECURSIVE LexFrom(_, _)
LexFrom(s, i) ==
  IF i > Len(s) THEN [ok |-> TRUE, toks |-> <<>>]
  ELSE IF s[i] \in Whitespace THEN LexFrom(s, i + 1)
  ELSE IF s[i] \in Punct
    THEN LET r == LexFrom(s, i + 1)
         IN IF r.ok THEN [ok |-> TRUE, toks |-> <<[t |-> "p", v |-> <<s[i]>>]>> \o r.toks]
            ELSE LexFail
  ELSE IF s[i] = QUOTE
    THEN LET j == StrEnd(s, i + 1)
         IN IF j = 0 THEN LexFail
            ELSE LET u == Unescape(s, i + 1, j - 1)
                     r == LexFrom(s, j + 1)
                 IN IF u.ok /\ r.ok
                      THEN [ok |-> TRUE, toks |-> <<[t |-> "str", v |-> u.v]>> \o r.toks]
                      ELSE LexFail
  ELSE IF s[i] \in {"true", "false", "null", "1"}
    THEN LET r == LexFrom(s, i + 1)
         IN IF r.ok THEN [ok |-> TRUE, toks |-> <<[t |-> "lit", v |-> <<s[i]>>]>> \o r.toks]
            ELSE LexFail
  ELSE LexFail

Lex(s) == LexFrom(s, 1)

NoEvent == [type |-> <<>>, status |-> <<>>]
DecodeFail == [ok |-> FALSE, ev |-> NoEvent]
Absent == [has |-> FALSE, v |-> <<>>]
Present(v) == [has |-> TRUE, v |-> v]

IsP(tok, c) == tok.t = "p" /\ tok.v = <<c>>

\* The end of the object at lexeme j: nothing may follow, both fields are required.
MapEnd(toks, j, ty, st) ==
  IF j = Len(toks) /\ ty.has /\ st.has
    THEN [ok |-> TRUE, ev |-> [type |-> ty.v, status |-> st.v]]
    ELSE DecodeFail

\* #[derive(Deserialize)] NetworkEvent, visit_map: entries from lexeme i on.
\* "type" and "status" take a string and may occur once; any other key is
\* ignored together with its (scalar) value.
RECURSIVE VisitMap(_, _, _, _, _)
VisitMap(toks, i, ty, st, first) ==
  IF i > Len(toks) THEN DecodeFail
  ELSE IF first /\ IsP(toks[i], "}") THEN MapEnd(toks, i, ty, st)
  ELSE IF i + 3 > Len(toks) THEN DecodeFail
  ELSE IF toks[i].t # "str" \/ ~IsP(toks[i + 1], ":") \/ toks[i + 2].t = "p" THEN DecodeFail
  ELSE LET key == toks[i].v
           val == toks[i + 2]
           bad == \/ key = <<"type">> /\ (val.t # "str" \/ ty.has)
                  \/ key = <<"status">> /\ (val.t # "str" \/ st.has)
           ty2 == IF key = <<"type">> THEN Present(val.v) ELSE ty
           st2 == IF key = <<"status">> THEN Present(val.v) ELSE st
       IN IF bad THEN DecodeFail
          ELSE IF IsP(toks[i + 3], ",") THEN VisitMap(toks, i + 4, ty2, st2, FALSE)
          ELSE IF IsP(toks[i + 3], "}") THEN MapEnd(toks, i + 3, ty2, st2)
          ELSE DecodeFail

\* #[derive(Deserialize)] NetworkEvent, visit_seq: exactly ["<type>","<status>"].
VisitSeq(toks) ==
  IF /\ Len(toks) = 5
     /\ toks[2].t = "str" /\ IsP(toks[3], ",") /\ toks[4].t = "str" /\ IsP(toks[5], "]")
    THEN [ok |-> TRUE, ev |-> [type |-> toks[2].v, status |-> toks[4].v]]
    ELSE DecodeFail

\* serde_json::from_str::<NetworkEvent>(&input)
from_str(input) ==
  LET l == Lex(input)
  IN IF ~l.ok \/ l.toks = <<>> THEN DecodeFail
     ELSE IF IsP(l.toks[1], "{") THEN VisitMap(l.toks, 2, Absent, Absent, TRUE)
     ELSE IF IsP(l.toks[1], "[") THEN VisitSeq(l.toks)
     ELSE DecodeFail

(* ------------------------------------------------------------ the inputs *)
\* Lines the host may send, without their terminator.
LineEvent ==
  <<"{", QUOTE, "type", QUOTE, ":", QUOTE, "network", QUOTE, ",",
    QUOTE, "status", QUOTE, ":", QUOTE, "up", QUOTE, "}">>
LineSeqEvent == <<"[", QUOTE, "wifi", QUOTE, ",", QUOTE, "down", QUOTE, "]">>
LineNotJson == <<"not json">>
LineEmptyObject == <<"{", "}">>
LineEmpty == <<>>
LineBadUtf8 == <<BADUTF8>>

LineKinds ==
  {LineEvent, LineSeqEvent, LineNotJson, LineEmptyObject, LineEmpty, LineBadUtf8}

\* n lines, each with its terminator
RECURSIVE TerminatedLines(_)
TerminatedLines(n) ==
  IF n = 0 THEN {<<>>}
  ELSE {l \o <<NL>> \o rest : l \in LineKinds, rest \in TerminatedLines(n - 1)}

\* What a source can hold: up to MaxLines lines and then the end of input,
\* the last line with or without its terminator; or fewer lines, a read that
\* fails (at a line boundary or inside a line) and a further line behind it.
Sources ==
  LET closed == UNION {TerminatedLines(n) : n \in 0..MaxLines}
                  \cup UNION {{ls \o l : ls \in TerminatedLines(n), l \in {LineEvent, LineNotJson}}
                                : n \in 0..(MaxLines - 1)}
      failing == UNION {{ls \o cut \o <<IOERR>> \o LineEvent \o <<NL>>
                           : ls \in TerminatedLines(n), cut \in {<<>>, LineNotJson}}
                         : n \in 0..(MaxLines - 1)}
  IN closed \cup failing

\* A few of them, for the two directions together.
SampleSources ==
  { <<>>,
    LineEvent \o <<NL>>,
    LineNotJson \o <<NL>> \o LineSeqEvent \o <<NL>> \o LineEvent,
    LineEmptyObject \o <<NL, IOERR>> \o LineEvent \o <<NL>>,
    LineBadUtf8 \o <<NL>> }

\* Notification texts: plain, empty, with characters JSON escapes, and one
\* shaped like the end of a string followed by another "type" field.
MsgHello == <<"Hello, World!">>
MsgEmpty == <<>>
MsgEscapes == <<"a", QUOTE, NL, BSL>>
MsgForge == <<QUOTE, ",", QUOTE, "type", QUOTE, ":", QUOTE, "setWifi">>
Messages == {MsgHello, MsgEmpty, MsgEscapes, MsgForge}

(* -------------------------------------------------------------- the state *)
VARIABLES
  source,     \* PlatoHelper.reader: the bytes it has not handed out yet
  sink,       \* PlatoHelper.writer: the bytes it has accepted
  pc,         \* "idle", or the position inside read_json_blocking
  buf,        \* the BufReader's buffer (local to read_json_blocking)
  input,      \* the String `input` (local to read_json_blocking)
  result,     \* what the last call returned
  ncalls,     \* calls made so far
  log,        \* the write calls made so far, with what the sink accepted
  callSrc,    \* the source as it was when the running / last read call began
  discarded,  \* the lines that call read and did not return
  nreads,     \* read_line calls of that call
  eofSeen,    \* the underlying read returned 0 during that call
  readFailed, \* the underlying read returned an error during that call
  dropped,    \* bytes that were in the BufReader when that call returned
  origin,     \* the source as it was when the channel was constructed
  events      \* the events the read calls have returned so far, in order

vars == <<source, sink, pc, buf, input, result, ncalls, log,
          callSrc, discarded, nreads, eofSeen, readFailed, dropped, origin, events>>

readVars == <<source, pc, buf, input, callSrc, discarded, nreads, eofSeen, readFailed, dropped,
              origin, events>>

NoResult == [op |-> "none", kind |-> "none", err |-> "none", ev |-> NoEvent]
Pending(op) == [op |-> op, kind |-> "pending", err |-> "none", ev |-> NoEvent]
Ok(op, ev) == [op |-> op, kind |-> "Ok", err |-> "none", ev |-> ev]
Err(op, e) == [op |-> op, kind |-> "Err", err |-> e, ev |-> NoEvent]

InitCommon ==
  /\ sink = <<>>
  /\ pc = "idle"
  /\ buf = <<>>
  /\ input = <<>>
  /\ result = NoResult
  /\ ncalls = 0
  /\ log = <<>>
  /\ callSrc = <<>>
  /\ discarded = <<>>
  /\ nreads = 0
  /\ eofSeen = FALSE
  /\ readFailed = FALSE
  /\ dropped = <<>>
  /\ events = <<>>

(* ------------------------------------------------------------- write path *)
\* Mutant of write_json: a line terminator is written after the message.
write_json_Newline(op, arg, value) ==
  LET json == to_string(value)
  IN \E k \in 0..Len(json) :
       LET wrote == SubSeq(json, 1, k)
           ok == (k = Len(json))
       IN /\ sink' = IF ok THEN sink \o wrote \o <<NL>> ELSE sink \o wrote
          /\ result' = IF ok THEN Ok(op, NoEvent) ELSE Err(op, "Io")
          /\ log' = Append(log, [op |-> op, arg |-> arg, ok |-> ok, wrote |-> wrote])

\* Mutant of write_json: the message goes to the front of what was written.
write_json_Front(op, arg, value) ==
  LET json == to_string(value)
  IN \E k \in 0..Len(json) :
       LET wrote == SubSeq(json, 1, k)
           ok == (k = Len(json))
       IN /\ sink' = wrote \o sink
          /\ result' = IF ok THEN Ok(op, NoEvent) ELSE Err(op, "Io")
          /\ log' = Append(log, [op |-> op, arg |-> arg, ok |-> ok, wrote |-> wrote])

\* Mutant of write_json: after a failed write the whole message is written
\* again and the call returns Ok.
write_json_Retry(op, arg, value) ==
  LET json == to_string(value)
  IN \E k \in 0..Len(json) :
       LET wrote == SubSeq(json, 1, k)
           ok == (k = Len(json))
       IN /\ sink' = IF ok THEN sink \o wrote ELSE sink \o wrote \o json
          /\ result' = Ok(op, NoEvent)
          /\ log' = Append(log, [op |-> op, arg |-> arg, ok |-> ok, wrote |-> wrote])

\* write_json: serialize, then Write::write_all.  The sink accepts the first
\* k bytes; write_all returns Ok when it accepted all of them and the sink's
\* error otherwise.  (write_all repeats a write only on ErrorKind::Interrupted,
\* which leaves the sink as it was.)
write_json(op, arg, value) ==
  LET json == to_string(value)
  IN \E k \in 0..Len(json) :
       LET wrote == SubSeq(json, 1, k)
           ok == (k = Len(json))
       IN /\ sink' = sink \o wrote
          /\ result' = IF ok THEN Ok(op, NoEvent) ELSE Err(op, "Io")
          /\ log' = Append(log, [op |-> op, arg |-> arg, ok |-> ok, wrote |-> wrote])

\* Mutant of display_notification: the discriminator is taken from the caller's text.
display_notification_TypeFromText(message) ==
  /\ pc = "idle"
  /\ ncalls < MaxCalls
  /\ ncalls' = ncalls + 1
  /\ write_json("notify", message,
                [struct |-> "NotificationEvent", type |-> message, message |-> message])
  /\ UNCHANGED readVars

display_notification(message) ==
  /\ pc = "idle"
  /\ ncalls < MaxCalls
  /\ ncalls' = ncalls + 1
  /\ write_json("notify", message,
                [struct |-> "NotificationEvent", type |-> <<"notify">>, message |-> message])
  /\ UNCHANGED readVars

\* Mutant of set_wifi: after writing, the call takes a reply from the reader.
set_wifi_AwaitReply(status) ==
  /\ pc = "idle"
  /\ ncalls < MaxCalls
  /\ ncalls' = ncalls + 1
  /\ write_json("setWifi", <<status>>,
                [struct |-> "WifiEvent", type |-> <<"setWifi">>, enable |-> WifiStatusToBool(status)])
  /\ source # <<>>
  /\ source' = Tail(source)
  /\ UNCHANGED <<pc, buf, input, callSrc, discarded, nreads, eofSeen, readFailed, dropped,
                 origin, events>>

set_wifi(status) ==
  /\ pc = "idle"
  /\ ncalls < MaxCalls
  /\ ncalls' = ncalls + 1
  /\ write_json("setWifi", <<status>>,
                [struct |-> "WifiEvent", type |-> <<"setWifi">>, enable |-> WifiStatusToBool(status)])
  /\ UNCHANGED readVars

(* -------------------------------------------------------------- read path *)
\* Index of the first element of s that is in set S, 0 if there is none.
RECURSIVE FirstIn(_, _, _)
FirstIn(s, S, i) ==
  IF i > Len(s) THEN 0 ELSE IF s[i] \in S THEN i ELSE FirstIn(s, S, i + 1)

\* The bytes a Read::read can hand out now: those before the next failure.
Avail(s) == LET i == FirstIn(s, {IOERR}, 1) IN IF i = 0 THEN Len(s) ELSE i - 1

ValidUtf8(line) == \A i \in 1..Len(line) : line[i] # BADUTF8

\* read_json_blocking returns: its locals, the BufReader among them, are dropped.
\* rest is what the BufReader still holds.
Return(res, rest) ==
  /\ pc' = "idle"
  /\ result' = res
  /\ dropped' = rest
  /\ buf' = <<>>
  /\ input' = <<>>
  /\ events' = IF res.kind = "Ok" THEN Append(events, res.ev) ELSE events

\* read_line has its line (terminated, or cut short by the end of input): it
\* fails on bytes that are not UTF-8, otherwise the loop goes on to decode.
ReadLineDone(line, rest) ==
  IF ValidUtf8(line)
    THEN /\ pc' = "decode"
         /\ input' = line
         /\ buf' = rest
         /\ UNCHANGED <<result, dropped, events>>
    ELSE Return(Err("wait", "InvalidData"), rest)

\* wait_for_network_blocking is called: BufReader::new, String::new, and the
\* first input.clear() / read_line of the loop begins.
wait_for_network_blocking ==
  /\ pc = "idle"
  /\ ncalls < MaxCalls
  /\ ncalls' = ncalls + 1
  /\ pc' = "read_line"
  /\ buf' = <<>>
  /\ input' = <<>>
  /\ result' = Pending("wait")
  /\ callSrc' = source
  /\ discarded' = <<>>
  /\ nreads' = 1
  /\ eofSeen' = FALSE
  /\ readFailed' = FALSE
  /\ dropped' = <<>>
  /\ UNCHANGED <<source, sink, log, origin, events>>

\* Mutant of fill_buf: a failed read is tried again instead of returned.
fill_buf_Retry ==
  /\ pc = "read_line"
  /\ buf = <<>>
  /\ \/ /\ source # <<>> /\ Head(source) = IOERR
        /\ source' = Tail(source)
        /\ readFailed' = TRUE
        /\ UNCHANGED <<pc, buf, input, result, dropped, events, eofSeen>>
     \/ /\ source = <<>>
        /\ eofSeen' = TRUE
        /\ ReadLineDone(input, buf)
        /\ UNCHANGED <<source, readFailed>>
     \/ /\ source # <<>> /\ Head(source) # IOERR
        /\ \E k \in 1..Min(BufCap, Avail(source)) :
             /\ buf' = SubSeq(source, 1, k)
             /\ source' = SubSeq(source, k + 1, Len(source))
        /\ UNCHANGED <<pc, input, result, dropped, events, eofSeen, readFailed>>
  /\ UNCHANGED <<sink, log, ncalls, callSrc, discarded, nreads, origin>>

\* Mutant of fill_buf: the end of input is returned as an error, whatever
\* has been read of the line.
fill_buf_EofError ==
  /\ pc = "read_line"
  /\ buf = <<>>
  /\ \/ /\ source # <<>> /\ Head(source) = IOERR
        /\ source' = Tail(source)
        /\ readFailed' = TRUE
        /\ Return(Err("wait", "Io"), buf)
        /\ UNCHANGED eofSeen
     \/ /\ source = <<>>
        /\ eofSeen' = TRUE
        /\ Return(Err("wait", "Io"), buf)
        /\ UNCHANGED <<source, readFailed>>
     \/ /\ source # <<>> /\ Head(source) # IOERR
        /\ \E k \in 1..Min(BufCap, Avail(source)) :
             /\ buf' = SubSeq(source, 1, k)
             /\ source' = SubSeq(source, k + 1, Len(source))
        /\ UNCHANGED <<pc, input, result, dropped, events, eofSeen, readFailed>>
  /\ UNCHANGED <<sink, log, ncalls, callSrc, discarded, nreads, origin>>

\* read_line, BufReader::fill_buf with an empty buffer: one Read::read of the
\* underlying reader, which fails, reports the end of input (0 bytes), or
\* hands out between 1 and BufCap of the bytes it has.
fill_buf ==
  /\ pc = "read_line"
  /\ buf = <<>>
  /\ \/ /\ source # <<>> /\ Head(source) = IOERR
        /\ source' = Tail(source)
        /\ readFailed' = TRUE
        /\ Return(Err("wait", "Io"), buf)
        /\ UNCHANGED eofSeen
     \/ /\ source = <<>>
        /\ eofSeen' = TRUE
        /\ ReadLineDone(input, buf)
        /\ UNCHANGED <<source, readFailed>>
     \/ /\ source # <<>> /\ Head(source) # IOERR
        /\ \E k \in 1..Min(BufCap, Avail(source)) :
             /\ buf' = SubSeq(source, 1, k)
             /\ source' = SubSeq(source, k + 1, Len(source))
        /\ UNCHANGED <<pc, input, result, dropped, events, eofSeen, readFailed>>
  /\ UNCHANGED <<sink, log, ncalls, callSrc, discarded, nreads, origin>>

\* read_line, BufRead::read_until(b'\n') on a filled buffer: move the bytes up
\* to and including the first newline into the line; without a newline move
\* all of them and go on reading.
consume ==
  /\ pc = "read_line"
  /\ buf # <<>>
  /\ LET i == FirstIn(buf, {NL}, 1)
     IN IF i > 0
          THEN ReadLineDone(input \o SubSeq(buf, 1, i), SubSeq(buf, i + 1, Len(buf)))
          ELSE /\ buf' = <<>>
               /\ input' = input \o buf
               /\ UNCHANGED <<pc, result, dropped, events>>
  /\ UNCHANGED <<source, sink, log, ncalls, callSrc, discarded, nreads, eofSeen, readFailed, origin>>

\* Mutant of decode: the loop lacks input.clear(), the next line is appended
\* to the one that did not decode.
decode_NoClear ==
  /\ pc = "decode"
  /\ LET r == from_str(input)
     IN IF r.ok
          THEN /\ Return(Ok("wait", r.ev), buf)
               /\ UNCHANGED <<discarded, nreads>>
          ELSE /\ pc' = "read_line"
               /\ input' = input
               /\ discarded' = IF Len(discarded) < MaxReads THEN Append(discarded, input)
                               ELSE discarded
               /\ nreads' = Min(nreads + 1, MaxReads + 1)
               /\ UNCHANGED <<buf, result, dropped, events>>
  /\ UNCHANGED <<source, sink, log, ncalls, callSrc, eofSeen, readFailed, origin>>

\* Mutant of decode: a line that does not decode is returned as an error.
decode_Propagate ==
  /\ pc = "decode"
  /\ LET r == from_str(input)
     IN IF r.ok
          THEN /\ Return(Ok("wait", r.ev), buf)
               /\ UNCHANGED <<discarded, nreads>>
          ELSE /\ Return(Err("wait", "InvalidData"), buf)
               /\ UNCHANGED <<discarded, nreads>>
  /\ UNCHANGED <<source, sink, log, ncalls, callSrc, eofSeen, readFailed, origin>>

\* if let Ok(json) = serde_json::from_str(&input) { return Ok(json) }, else the
\* next iteration: input.clear() and another read_line.
decode ==
  /\ pc = "decode"
  /\ LET r == from_str(input)
     IN IF r.ok
          THEN /\ Return(Ok("wait", r.ev), buf)
               /\ UNCHANGED <<discarded, nreads>>
          ELSE /\ pc' = "read_line"
               /\ input' = <<>>
               /\ discarded' = IF Len(discarded) < MaxReads THEN Append(discarded, input)
                               ELSE discarded
               /\ nreads' = Min(nreads + 1, MaxReads + 1)
               /\ UNCHANGED <<buf, result, dropped, events>>
  /\ UNCHANGED <<source, sink, log, ncalls, callSrc, eofSeen, readFailed, origin>>

(* --------------------------------------------------------- specifications *)
Init == InitCommon /\ source \in SampleSources /\ origin = source

InitRead == InitCommon /\ source \in Sources /\ origin = source

NextWrite ==
  \/ \E m \in Messages : display_notification(m)
  \/ \E s \in WifiStatus : set_wifi(s)

NextRead ==
  \/ wait_for_network_blocking
  \/ fill_buf
  \/ consume
  \/ decode

\* The write calls with a sample of the texts, for the two directions together.
NextWriteSample ==
  \/ display_notification(MsgHello)
  \/ \E s \in WifiStatus : set_wifi(s)

Next == NextWriteSample \/ NextRead

Spec == Init /\ [][Next]_vars

\* The read path alone, over every source.
SpecRead == InitRead /\ [][NextRead]_vars

\* The step that leaves the decode position; under NextRead it is decode, and
\* it can be taken exactly when decode can.
DecodeStep == pc = "decode" /\ pc' \in {"idle", "read_line"}

\* The read path alone over the sample sources, with the steps of a call in
\* progress taken whenever they can be: the loop runs on the calling thread,
\* and a blocking read of a source that holds bytes, has ended or fails does
\* return.
SpecReadFair ==
  /\ Init
  /\ [][NextRead]_vars
  /\ WF_vars(fill_buf)
  /\ WF_vars(consume)
  /\ WF_pc(DecodeStep)

\* The write path alone.
InitWrite == InitCommon /\ source = <<>> /\ origin = source
SpecWrite == InitWrite /\ [][NextWrite]_vars

(* ------------------------------------------------- the source as lines *)
\* The lines read_line delivers from stream s: every terminated line before
\* the first failing read, and the unterminated rest when the input ends there.
RECURSIVE StreamLines(_)
StreamLines(s) ==
  IF s = <<>> THEN <<>>
  ELSE LET i == FirstIn(s, {NL, IOERR}, 1)
       IN IF i = 0 THEN <<s>>
          ELSE IF s[i] = IOERR THEN <<>>
          ELSE <<SubSeq(s, 1, i)>> \o StreamLines(SubSeq(s, i + 1, Len(s)))

\* Stream s without its first d terminated lines.
RECURSIVE RestAfter(_, _)
RestAfter(s, d) ==
  IF d = 0 THEN s
  ELSE LET i == FirstIn(s, {NL}, 1)
       IN IF i = 0 THEN <<>> ELSE RestAfter(SubSeq(s, i + 1, Len(s)), d - 1)

\* What follows the first failing read of stream s.
AfterFirstErr(s) == SubSeq(s, FirstIn(s, {IOERR}, 1) + 1, Len(s))

Decodes(line) == ValidUtf8(line) /\ from_str(line).ok

\* Index of the first line of ls that decodes as a NetworkEvent, 0 if none does.
RECURSIVE FirstDecodable(_, _)
FirstDecodable(ls, j) ==
  IF j > Len(ls) THEN 0 ELSE IF Decodes(ls[j]) THEN j ELSE FirstDecodable(ls, j + 1)

\* The call in progress, or the last one made, is wait_for_network_blocking.
IsWait == result.op = "wait"
Returned == pc = "idle" /\ IsWait

(* ------------------------------------------------------------------- C1 *)
\* C1: once the source has reported the end of input and no line read from
\* it is waiting to be decoded, the call has returned, and with an error
\* (or with the event decoded from the unterminated last line).
C1_ClosedSourceIsError ==
  (IsWait /\ eofSeen /\ pc # "decode") =>
    /\ pc = "idle"
    /\ \/ result.kind = "Err"
       \/ /\ result.kind = "Ok"
          /\ LET ls == StreamLines(callSrc)
             IN ls # <<>> /\ Decodes(ls[Len(ls)]) /\ result.ev = from_str(ls[Len(ls)]).ev

(* ------------------------------------------------------------------- C2 *)
\* What C2 promises of a call on a source whose line j is the first that
\* decodes: until it returns it has discarded a proper prefix of lines 1..j-1;
\* it returns Ok with the event of line j, having read j lines and discarded
\* exactly lines 1..j-1.
SkipsTo(ls, j) ==
  /\ pc # "idle" => Len(discarded) < j /\ discarded = SubSeq(ls, 1, Len(discarded))
  /\ pc = "idle" =>
       /\ result = Ok("wait", from_str(ls[j]).ev)
       /\ discarded = SubSeq(ls, 1, j - 1)
       /\ nreads = j

\* C2 (as stated): whenever lines 1..n of the source do not decode and line
\* n+1 does, the call returns the event of line n+1 after discarding lines 1..n.
C2_SkipMalformed_Orig ==
  LET ls == StreamLines(callSrc)
      j == FirstDecodable(ls, 1)
  IN (IsWait /\ j > 0) => SkipsTo(ls, j)

\* C2 (amended): the same, for lines 1..n that are valid UTF-8.
C2_SkipMalformed ==
  LET ls == StreamLines(callSrc)
      j == FirstDecodable(ls, 1)
  IN (IsWait /\ j > 0 /\ \A i \in 1..(j - 1) : ValidUtf8(ls[i])) => SkipsTo(ls, j)

\* two lines of different kinds were discarded and the third was returned
C2_Witness ==
  /\ Returned /\ result.kind = "Ok"
  /\ Len(discarded) = 2 /\ discarded[1] # discarded[2]
  /\ nreads = 3

(* ------------------------------------------------------------------- C3 *)
\* C3: during a call the channel holds, of what it took from the source, at
\* most the one line it is reading (a newline can only be the last byte it
\* holds), and a call that returns was holding nothing it had not delivered.
C3_OneLineBuffering ==
  /\ pc # "idle" => FirstIn(input \o buf, {NL}, 1) \in {0, Len(input \o buf)}
  /\ dropped = <<>>

(* ------------------------------------------------------------------- C8 *)
\* The line the call was reading when it stopped: what follows the lines it
\* discarded, up to and including the next newline or failing read.
FailingLine ==
  LET rest == RestAfter(callSrc, Len(discarded))
      i == FirstIn(rest, {NL, IOERR}, 1)
  IN IF i = 0 THEN rest ELSE SubSeq(rest, 1, i)

\* C8 (as stated): the call returns an error only when the underlying read failed.
C8_ErrorOnlyOnReadFailure_Orig ==
  (Returned /\ result.kind = "Err") => readFailed

\* C8 (amended): the call returns an error only when the underlying read
\* failed (the line it was reading ends at the failing read) or the line it
\* was reading is not valid UTF-8; every line before that one was valid UTF-8
\* that does not decode, and was discarded.
C8_ErrorOnlyOnReadFailure ==
  (Returned /\ result.kind = "Err") =>
    LET ls == StreamLines(callSrc)
        f == FailingLine
    IN /\ Len(discarded) <= Len(ls)
       /\ discarded = SubSeq(ls, 1, Len(discarded))
       /\ \A i \in 1..Len(discarded) : ValidUtf8(discarded[i]) /\ ~from_str(discarded[i]).ok
       /\ \/ result.err = "Io" /\ f # <<>> /\ f[Len(f)] = IOERR
          \/ result.err = "InvalidData" /\ ~ValidUtf8(f) /\ IOERR \notin {f[i] : i \in 1..Len(f)}

\* a line that is not UTF-8 ended the call after two lines were discarded
C8_Witness ==
  /\ Returned /\ result.err = "InvalidData"
  /\ Len(discarded) = 2

(* ------------------------------------------------------------------ C10 *)
\* C10: once the underlying read has failed during a call, the call has
\* returned that error, and the source is exactly where the failing read left
\* it: nothing was read after the failure.
C10_ReadFailure ==
  readFailed =>
    /\ pc = "idle"
    /\ result = Err("wait", "Io")
    /\ source = AfterFirstErr(callSrc)

\* the read failed after two lines were discarded, with more input behind it
C10_Witness ==
  /\ readFailed /\ Returned
  /\ Len(discarded) = 2
  /\ source # <<>>

(* --------------------------------------------------- the wire, by hand *)
\* The bytes the host expects, written out: the notification texts escaped
\* by hand, and the two setWifi messages.
EscapedText(m) ==
  IF m = MsgHello THEN <<"Hello, World!">>
  ELSE IF m = MsgEmpty THEN <<>>
  ELSE IF m = MsgEscapes THEN <<"a", BSL, QUOTE, BSL, "n", BSL, BSL>>
  ELSE <<BSL, QUOTE, ",", BSL, QUOTE, "type", BSL, QUOTE, ":", BSL, QUOTE, "setWifi">>

NotifyWire(m) ==
  <<"{", QUOTE, "type", QUOTE, ":", QUOTE, "notify", QUOTE, ",",
    QUOTE, "message", QUOTE, ":", QUOTE>> \o EscapedText(m) \o <<QUOTE, "}">>

WifiWire(status) ==
  <<"{", QUOTE, "type", QUOTE, ":", QUOTE, "setWifi", QUOTE, ",",
    QUOTE, "enable", QUOTE, ":">>
    \o (IF status = "Enabled" THEN <<"true", "}">> ELSE <<"false", "}">>)

ExpectedWire(e) == IF e.op = "notify" THEN NotifyWire(e.arg) ELSE WifiWire(e.arg[1])

\* The step is a write call; its record is the last of log'.
WriteCall == Len(log') = Len(log) + 1
LastCall == log'[Len(log')]

(* ------------------------------------------------------------------- C4 *)
\* C4: a display_notification(m) that succeeds appends to the sink exactly
\* the compact JSON object {"type":"notify","message":m}, m escaped, and no
\* other byte (no newline after it).
C4_NotificationBytes ==
  [][(WriteCall /\ LastCall.op = "notify" /\ LastCall.ok)
       => sink' = sink \o NotifyWire(LastCall.arg)]_vars

\* a text with a quote, a newline and a backslash was written
C4_Witness ==
  \E i \in 1..Len(log) : log[i].op = "notify" /\ log[i].ok /\ log[i].arg = MsgEscapes

(* ------------------------------------------------------------------- C5 *)
\* C5: a set_wifi(state) that succeeds appends to the sink exactly one setWifi
\* message, with enable true for Enabled and false for Disabled.
C5_WifiBytes ==
  [][(WriteCall /\ LastCall.op = "setWifi" /\ LastCall.ok)
       => sink' = sink \o WifiWire(LastCall.arg[1])]_vars

\* both states were written
C5_Witness ==
  /\ Len(log) = 2
  /\ log[1].op = "setWifi" /\ log[1].ok /\ log[2].op = "setWifi" /\ log[2].ok
  /\ log[1].arg = <<"Disabled">> /\ log[2].arg = <<"Enabled">>

(* ------------------------------------------------------------------- C6 *)
RECURSIVE ConcatWire(_)
ConcatWire(l) == IF l = <<>> THEN <<>> ELSE ExpectedWire(Head(l)) \o ConcatWire(Tail(l))

\* C6: when every call so far succeeded, the sink holds exactly the calls'
\* messages one after the other in call order.
C6_WriteOrdering ==
  (\A i \in 1..Len(log) : log[i].ok) => sink = ConcatWire(log)

\* a notification and then a setWifi, both written
C6_Witness ==
  /\ Len(log) = 2
  /\ log[1].op = "notify" /\ log[1].ok /\ log[1].arg # <<>>
  /\ log[2].op = "setWifi" /\ log[2].ok

(* ------------------------------------------------------------------- C7 *)
\* The values of the "type" fields of the flat JSON object with lexemes toks,
\* from the key at lexeme i on; "#malformed" when it is not such an object.
RECURSIVE TypeValues(_, _)
TypeValues(toks, i) ==
  IF i + 3 > Len(toks) THEN {<<"#malformed">>}
  ELSE IF toks[i].t # "str" \/ ~IsP(toks[i + 1], ":") \/ toks[i + 2].t = "p"
    THEN {<<"#malformed">>}
  ELSE LET here == IF toks[i].v = <<"type">> THEN {toks[i + 2].v} ELSE {}
       IN IF IsP(toks[i + 3], "}")
            THEN IF i + 3 = Len(toks) THEN here ELSE {<<"#malformed">>}
          ELSE IF IsP(toks[i + 3], ",") THEN here \cup TypeValues(toks, i + 4)
          ELSE {<<"#malformed">>}

\* The discriminators a reader of message bytes finds in them.
Discriminators(bytes) ==
  LET l == Lex(bytes)
  IN IF l.ok /\ l.toks # <<>> /\ IsP(l.toks[1], "{") THEN TypeValues(l.toks, 2)
     ELSE {<<"#malformed">>}

\* C7: every message the channel has written is one JSON object whose only
\* discriminator is "notify" when display_notification wrote it and "setWifi"
\* when set_wifi did, whatever the text or the state passed in.
C7_Discriminator ==
  \A i \in 1..Len(log) :
    log[i].ok =>
      Discriminators(log[i].wrote) =
        (IF log[i].op = "notify" THEN {<<"notify">>} ELSE {<<"setWifi">>})

\* the text shaped like a second "type" field was written
C7_Witness ==
  \E i \in 1..Len(log) : log[i].op = "notify" /\ log[i].ok /\ log[i].arg = MsgForge

(* ------------------------------------------------------------------- C9 *)
RECURSIVE ConcatWrote(_)
ConcatWrote(l) == IF l = <<>> THEN <<>> ELSE Head(l).wrote \o ConcatWrote(Tail(l))

IsProperPrefix(a, b) == Len(a) < Len(b) /\ a = SubSeq(b, 1, Len(a))

\* C9: a call whose message the sink did not accept in full returned an I/O
\* error; the sink holds, for every call in order, exactly what it accepted of
\* that call's message (a proper prefix for a failed call, never taken back,
\* never written again; the whole message, after a failed call too, for a
\* call that succeeded).
C9_WriteFailure ==
  /\ sink = ConcatWrote(log)
  /\ \A i \in 1..Len(log) :
       IF log[i].ok THEN log[i].wrote = ExpectedWire(log[i])
       ELSE IsProperPrefix(log[i].wrote, ExpectedWire(log[i]))
  /\ (log # <<>> /\ pc = "idle" /\ ~IsWait) =>
       LET e == log[Len(log)]
       IN result = IF e.ok THEN Ok(e.op, NoEvent) ELSE Err(e.op, "Io")

\* a call failed after the sink took part of its message, the next succeeded
C9_Witness ==
  /\ Len(log) = 2
  /\ ~log[1].ok /\ log[1].wrote # <<>>
  /\ log[2].ok
  /\ result.kind = "Ok"

(* ------------------------------------------------------------------ C11 *)
\* The source, as the call found it, is one line without terminator that
\* decodes as a NetworkEvent, and then the end of input.
UnterminatedEvent ==
  /\ callSrc # <<>>
  /\ FirstIn(callSrc, {NL, IOERR}, 1) = 0
  /\ Decodes(callSrc)

\* C11: on such a source the call discards nothing, takes the end of input
\* for the end of the line (it goes on to decode exactly that line, it neither
\* fails nor reads again) and returns Ok with the line's event.
C11_UnterminatedFinalLine ==
  (IsWait /\ UnterminatedEvent) =>
    /\ discarded = <<>>
    /\ (eofSeen /\ pc # "idle") => (pc = "decode" /\ input = callSrc)
    /\ pc = "idle" => (eofSeen /\ result = Ok("wait", from_str(callSrc).ev))

\* the line of the repository's test, without newline, was returned
C11_Witness ==
  /\ Returned /\ UnterminatedEvent
  /\ callSrc = LineEvent
  /\ result.kind = "Ok" /\ result.ev.type = <<"network">> /\ result.ev.status = <<"up">>
  /\ eofSeen

(* ------------------------------------------------------------------ C12 *)
\* The source holds text only and no read of it fails.
CleanSource(s) == \A i \in 1..Len(s) : s[i] \notin {IOERR, BADUTF8}

\* The events of the lines of ls that decode, in order.
RECURSIVE EventsOf(_)
EventsOf(ls) ==
  IF ls = <<>> THEN <<>>
  ELSE (IF Decodes(Head(ls)) THEN <<from_str(Head(ls)).ev>> ELSE <<>>) \o EventsOf(Tail(ls))

\* C12: on a source of text lines whose decodable lines are e1, ..., ek, the
\* events successive calls have returned are e1, e2, ... in that order: the
\* i-th call that returns an event returns ei, none is skipped.
C12_NoEventLost ==
  CleanSource(origin) =>
    LET es == EventsOf(StreamLines(origin))
    IN Len(events) <= Len(es) /\ events = SubSeq(es, 1, Len(events))

(* ------------------------------------------------------------------ C13 *)
\* C13: every call returns, Ok or Err.  (Every source here holds finitely many
\* bytes and then fails or ends, so it always does one of: deliver a line
\* that decodes, fail, close.)
C13_Terminates == (IsWait /\ pc # "idle") ~> (pc = "idle")

(* ------------------------------------------------------------------ C14 *)
\* The step is a whole display_notification or set_wifi call.
IsWriteStep == pc = "idle" /\ ncalls' = ncalls + 1 /\ result'.op \in {"notify", "setWifi"}

\* C14: a write call, Ok or Err, is one step that returns at once and leaves
\* the input side as it was (the source, and every byte and event read from
\* it); every other step, which is a step of a read call, leaves the sink and
\* the record of what was written as they were.
C14_Frame ==
  [][IF IsWriteStep
       THEN /\ pc' = "idle"
            /\ result'.kind \in {"Ok", "Err"}
            /\ source' = source
            /\ UNCHANGED <<buf, input, events, dropped>>
       ELSE /\ sink' = sink
            /\ log' = log]_vars

\* a read call returned an event and left no input, then a write call was
\* made and succeeded: the source and the events are as the read call left
\* them, the sink holds the message
C14_Witness ==
  /\ pc = "idle"
  /\ Len(events) = 1
  /\ Len(log) = 1 /\ log[1].ok
  /\ sink = ExpectedWire(log[1])
  /\ source = <<>>
  /\ result.op \in {"notify", "setWifi"}

====
